---- MODULE Spec2Model ----
(***************************************************************************)
(* Holder admin protocol (admin-holder/0.1) of the ACA-Py toolbox plugin:  *)
(* the six admin command handlers and the two event-bus handlers of        *)
(* acapy_plugin_toolbox/holder/v0_1.py, over the record store, the         *)
(* connection store, the protocol engines and the outbound responder.      *)
(***************************************************************************)
EXTENDS Integers, Sequences, FiniteSets, TLC

(* ------------------------------ bounds --------------------------------- *)
MaxTasks == 2       \* admin commands handled (concurrently) in one run
MaxCredEx == 1      \* credential exchange records in the store
MaxPresEx == 1      \* presentation exchange records in the store
MaxConns == 3       \* connection ids
MaxAdmins == 2      \* connected admin sessions
MaxListed == 2      \* records of mixed states in the store a list command reads

Tasks == 1..MaxTasks
CredIds == 1..MaxCredEx
PresIds == 1..MaxPresEx
ConnIds == 1..MaxConns
Admins == 1..MaxAdmins

(* --------------------------- program constants ------------------------- *)
DefaultLimit == 10      \* Paginate(limit=10, offset=0)
DefaultOffset == 0
DEFAULT_COUNT == 10     \* PresRequestReceived.DEFAULT_COUNT

STATE_PROPOSAL_SENT == "proposal_sent"
STATE_OFFER_RECEIVED == "offer_received"
STATE_REQUEST_SENT == "request_sent"
STATE_CREDENTIAL_RECEIVED == "credential_received"
STATE_ACKED == "acked"
STATE_REQUEST_RECEIVED == "request_received"
STATE_PRESENTATION_SENT == "presentation_sent"
STATE_VERIFIED == "verified"
ROLE_PROVER == "prover"
ROLE_VERIFIER == "verifier"

\* the issuance lifecycle, holder view, in order
CredLifecycle ==
    << STATE_PROPOSAL_SENT, STATE_OFFER_RECEIVED, STATE_REQUEST_SENT,
       STATE_CREDENTIAL_RECEIVED, STATE_ACKED >>

\* position of a state in the issuance lifecycle; 0 for a record not yet stored
CredRank(s) ==
    IF s = "none" THEN 0
    ELSE CHOOSE i \in 1..Len(CredLifecycle) : CredLifecycle[i] = s

VARIABLES
    credEx,       \* credential exchange records: id -> [state, conn]
    presEx,       \* presentation exchange records: id -> [state, conn, role, verified]
    task,         \* one admin command handler per task: message, position, locals
    trace,        \* per task, in order: engine calls, outbound sends, replies
    events,       \* event bus: published events whose handler has not finished
    notif,        \* per admin session, the notifications delivered, in order
    lost,         \* deliveries to an admin session that failed
    registry      \* protocol registry: message type name -> message class

vars == << credEx, presEx, task, trace, events, notif, lost, registry >>

(* --------------------------- messages ---------------------------------- *)
NoMsg ==
    [ kind |-> "none", admin |-> FALSE, id |-> 0, conn |-> 0, states |-> {},
      paginate |-> "omitted", limit |-> 0, offset |-> 0, verified |-> "None",
      auto_present |-> "None", debug |-> "None" ]

\* the ~paginate decorator of a list command: left out, or a limit and an offset
PageArgs ==
    { << "omitted", 0, 0 >>, << "given", DefaultLimit, DefaultOffset >>,
      << "given", 1, 0 >>, << "given", 1, 1 >>, << "given", 2, 1 >>,
      << "given", 1, MaxListed + 1 >> }

StatesArgs == { {}, {STATE_OFFER_RECEIVED}, {STATE_REQUEST_SENT, STATE_ACKED} }

CredGetListMsgs ==
    { [NoMsg EXCEPT !.kind = "credentials-get-list", !.admin = a, !.states = s,
                    !.paginate = p[1], !.limit = p[2], !.offset = p[3]] :
        a \in BOOLEAN, s \in StatesArgs, p \in PageArgs }

SendCredProposalMsgs ==
    { [NoMsg EXCEPT !.kind = "send-credential-proposal", !.admin = a, !.conn = c] :
        a \in BOOLEAN, c \in ConnIds }

CredOfferAcceptMsgs ==
    { [NoMsg EXCEPT !.kind = "credential-offer-accept", !.admin = a, !.id = x] :
        a \in BOOLEAN, x \in CredIds }

PresGetListMsgs ==
    { [NoMsg EXCEPT !.kind = "presentations-get-list", !.admin = a, !.conn = c,
                    !.verified = v, !.paginate = p[1], !.limit = p[2],
                    !.offset = p[3]] :
        a \in BOOLEAN, c \in ConnIds \cup {0}, v \in {"None", "true"},
        p \in PageArgs }

SendPresProposalMsgs ==
    { [NoMsg EXCEPT !.kind = "send-presentation-proposal", !.admin = a, !.conn = c,
                    !.auto_present = f, !.debug = d] :
        a \in BOOLEAN, c \in ConnIds, f \in {"None", "True", "False"},
        d \in {"None", "True"} }

PresRequestApproveMsgs ==
    { [NoMsg EXCEPT !.kind = "presentation-request-approve", !.admin = a, !.id = p] :
        a \in BOOLEAN, p \in PresIds }


(* --------------------------- trace entries ----------------------------- *)
NoEntry ==
    [ act |-> "", what |-> "", id |-> 0, conn |-> 0, state |-> "",
      explain |-> "", who_retries |-> "", results |-> << >>,
      count |-> 0, offset |-> 0, arg |-> "" ]

\* an engine operation invoked on record id
CallEntry(op, id, arg) ==
    [NoEntry EXCEPT !.act = "call", !.what = op, !.id = id, !.arg = arg]

\* responder.send(message, connection_id=conn)
SendEntry(msg, conn) ==
    [NoEntry EXCEPT !.act = "send", !.what = msg, !.conn = conn]

\* responder.send_reply of a message built from a serialized record
ReplyEntry(msg, id, rec) ==
    [NoEntry EXCEPT !.act = "reply", !.what = msg, !.id = id,
                    !.conn = rec.conn, !.state = rec.state]

\* responder.send_reply(ProblemReport(explain_ltxt=explain, who_retries='none'))
ProblemReport(explain) ==
    [NoEntry EXCEPT !.act = "reply", !.what = "problem-report",
                    !.explain = explain, !.who_retries = "none"]

\* responder.send_reply of a list message with its page
ListEntry(msg, results, page) ==
    [NoEntry EXCEPT !.act = "reply", !.what = msg, !.results = results,
                    !.count = page.count, !.offset = page.offset]

Replies(t) == SelectSeq(trace[t], LAMBDA e : e.act = "reply")
Sends(t) == SelectSeq(trace[t], LAMBDA e : e.act = "send")
Calls(t) == SelectSeq(trace[t], LAMBDA e : e.act = "call")

(* --------------------------- protocol registry ------------------------- *)
\* Meta.message_type of every message class of the module
message_type(cls) ==
    CASE cls = "CredGetList" -> "credentials-get-list"
      [] cls = "CredList" -> "credentials-list"
      [] cls = "SendCredProposal" -> "send-credential-proposal"
      [] cls = "CredExchange" -> "credential-exchange"
      [] cls = "CredOfferRecv" -> "credential-offer-received"
      [] cls = "CredOfferAccept" -> "credential-offer-accept"
      [] cls = "CredRequestSent" -> "credential-request-sent"
      [] cls = "CredReceived" -> "credential-received"
      [] cls = "PresGetList" -> "presentations-get-list"
      [] cls = "PresList" -> "presentations-list"
      [] cls = "SendPresProposal" -> "send-presentation-proposal"
      [] cls = "PresExchange" -> "presentation-exchange"
      [] cls = "PresRequestReceived" -> "presentation-request-received"
      [] cls = "PresRequestApprove" -> "presentation-request-approve"
      [] cls = "PresSent" -> "presentation-sent"

\* lines 628-642: the classes MESSAGE_TYPES is built from, in order
RegisteredClasses ==
    << "CredGetList", "CredList", "CredOfferAccept", "CredOfferRecv",
       "CredRequestSent", "CredReceived", "SendCredProposal", "CredExchange",
       "PresGetList", "PresList", "PresRequestApprove", "SendPresProposal",
       "PresExchange" >>

\* lines 626-643: the dict comprehension, a later class of a type name replacing
\* an earlier one; setup hands it to protocol_registry.register_message_types
MESSAGE_TYPES ==
    [ n \in { message_type(RegisteredClasses[i]) : i \in DOMAIN RegisteredClasses } |->
        LET last == CHOOSE i \in DOMAIN RegisteredClasses :
                      /\ message_type(RegisteredClasses[i]) = n
                      /\ \A j \in DOMAIN RegisteredClasses :
                           message_type(RegisteredClasses[j]) = n => j <= i
        IN  RegisteredClasses[last] ]

(* --------------------------- initial state ----------------------------- *)
\* no record under an id
NoCredEx == [state |-> "none", conn |-> 0]
NoPresEx == [state |-> "none", conn |-> 0, role |-> ROLE_PROVER, verified |-> "None"]

\* a handler not started: rec is the record it retrieves, error the exception
\* that ends it
IdleTask ==
    [ pc |-> "idle", msg |-> NoMsg, result |-> "", error |-> "", rec |-> NoCredEx ]

Init ==
    /\ credEx = [x \in CredIds |-> NoCredEx]
    /\ presEx = [p \in PresIds |-> NoPresEx]
    /\ task = [t \in Tasks |-> IdleTask]
    /\ trace = [t \in Tasks |-> << >>]
    /\ events = {}
    /\ notif = [a \in Admins |-> << >>]
    /\ lost = {}
    /\ registry = MESSAGE_TYPES

(* --------------------------- collaborators ----------------------------- *)
\* isinstance(err, classes): StorageNotFoundError is a StorageError
IsInstance(err, classes) ==
    \/ err \in classes
    \/ err = "StorageNotFoundError" /\ "StorageError" \in classes

\* Record.retrieve_by_id: the record, StorageNotFoundError, or the store failing
RetrieveOutcomes(exists) ==
    {"StorageError"} \cup (IF exists THEN {"ok"} ELSE {"StorageNotFoundError"})

\* Record.query: the records, or the store failing
QueryOutcomes == {"ok", "StorageError"}

\* the connection store: connection 1 is active, 2 is not ready yet, 3 was
\* deleted, and so on in turn
ConnStatus(c) ==
    CASE c % 3 = 1 -> "ready"
      [] c % 3 = 2 -> "not_ready"
      [] OTHER -> "missing"

\* util.get_connection: the ready connection record, else InvalidConnection
get_connection(c) ==
    IF c \in ConnIds /\ ConnStatus(c) = "ready" THEN "ok" ELSE "InvalidConnection"

\* util.ExceptionReporter: an exception of the given classes leaving the block is
\* turned into one Problem Report reply; any exception ends the handler
ExceptionReporter(err, classes) ==
    IF IsInstance(err, classes)
    THEN [result |-> "reported", entries |-> << ProblemReport(err) >>]
    ELSE [result |-> "raised", entries |-> << >>]

\* util.admin_only: the handler body runs only for a message of an admin channel
admin_only(msg) == msg.admin

\* decorators.pagination.Paginate.apply: the window [offset, offset+limit) and its page
Min(a, b) == IF a < b THEN a ELSE b

Max(a, b) == IF a > b THEN a ELSE b

\* a slip: the window taken from the first record whatever the offset
PaginateApply_from_start(records, limit, offset) ==
    LET end == Min(limit, Len(records))
    IN  [ slice |-> SubSeq(records, 1, end),
          page |-> [count |-> end, offset |-> offset] ]

PaginateApply(records, limit, offset) ==
    LET start == Min(offset, Len(records))
        end == Min(offset + limit, Len(records))
    IN  [ slice |-> SubSeq(records, start + 1, end),
          page |-> [count |-> end - start, offset |-> offset] ]

\* a record saved for the first time takes the next unused id of its store
NewId(store, id) ==
    /\ store[id].state = "none"
    /\ \A other \in DOMAIN store : other < id => store[other].state # "none"

\* the event a record's save publishes on its webhook topic
Event(topic, id, state) == [topic |-> topic, id |-> id, state |-> state, pc |-> "pending"]

\* the handler of task t ends: "ok", "reported" (a Problem Report was sent),
\* "raised" (error left the handler) or "denied", after the given entries
Finish(t, result, error, entries) ==
    /\ task' = [task EXCEPT ![t].pc = "done", ![t].result = result, ![t].error = error]
    /\ trace' = [trace EXCEPT ![t] = @ \o entries]

\* an exception leaves a block guarded by ExceptionReporter(responder, classes, ...)
Except(t, err, classes, entries) ==
    LET r == ExceptionReporter(err, classes)
    IN  /\ task' = [task EXCEPT ![t].pc = "done", ![t].result = r.result,
                                ![t].error = err]
        /\ trace' = [trace EXCEPT ![t] = @ \o entries \o r.entries]

Running(t, kind, pc) == task[t].pc = pc /\ task[t].msg.kind = kind

\* a slip: the reply sent before the message is handed to the dispatcher
SendThenReply_reply_first(call, send, reply, sent) ==
    IF sent THEN << call, reply, send >> ELSE << call, reply >>

\* the end of a mutating handler (lines 224-234, 297-300, 438-442, 607-611): the
\* engine call has returned, then responder.send, then responder.send_reply; an
\* exception of responder.send leaves the handler before the reply
SendThenReply(call, send, reply, sent) ==
    IF sent THEN << call, send, reply >> ELSE << call >>

(* --------------------------- message arrival --------------------------- *)
\* a slip: the list handlers left without the decorator
AdminOnlyHandlers_lists_open ==
    { "send-credential-proposal", "credential-offer-accept",
      "send-presentation-proposal", "presentation-request-approve" }

\* the handlers decorated @admin_only (lines 131, 184, 271, 348, 410, 567)
AdminOnlyHandlers ==
    { "credentials-get-list", "send-credential-proposal", "credential-offer-accept",
      "presentations-get-list", "send-presentation-proposal",
      "presentation-request-approve" }

\* the decorators let the handler body of msg run
Admitted(msg) == msg.kind \in AdminOnlyHandlers => admin_only(msg)

\* an admin message is handed to its handler (log_handling, admin_only)
Receive(t, msgs) ==
    /\ task[t].pc = "idle"
    /\ \A u \in Tasks : u < t => task[u].pc # "idle"
    /\ \E msg \in msgs :
         /\ msg.kind \in DOMAIN registry
         /\ task' = [task EXCEPT ![t] =
                       [ IdleTask EXCEPT !.msg = msg,
                           !.pc = IF Admitted(msg) THEN "body" ELSE "done",
                           !.result = IF Admitted(msg) THEN "" ELSE "denied" ]]
    /\ UNCHANGED << credEx, presEx, trace, events, notif, lost, registry >>

(* --------------------------- CredOfferAccept ---------------------------- *)
\* line 280: the exceptions the handler's reporter turns into a Problem Report
CredOfferAcceptReported == {"StorageError", "CredentialManagerError", "BaseModelError"}

\* a slip: the connection id is looked for on the message, which carries none
AcceptConnectionId_from_message(msg, rec) == msg.conn

\* line 286: connection_id = cred_ex_record.connection_id
AcceptConnectionId(msg, rec) == rec.conn

\* lines 275-287: retrieve the record and its connection inside the reporter
CredOfferAccept_retrieve(t) ==
    /\ Running(t, "credential-offer-accept", "body")
    /\ LET x == task[t].msg.id IN
       \E out \in RetrieveOutcomes(credEx[x].state # "none") :
         IF out # "ok"
         THEN Except(t, out, CredOfferAcceptReported, << >>)
         ELSE LET err == get_connection(AcceptConnectionId(task[t].msg, credEx[x])) IN
              IF err # "ok"
              THEN /\ task' = [task EXCEPT ![t].pc = "done", ![t].rec = credEx[x],
                                 ![t].error = err,
                                 ![t].result =
                                     ExceptionReporter(err, CredOfferAcceptReported).result]
                   /\ trace' = [trace EXCEPT ![t] =
                                  @ \o ExceptionReporter(err, CredOfferAcceptReported).entries]
              ELSE /\ task' = [task EXCEPT ![t].pc = "engine", ![t].rec = credEx[x]]
                   /\ UNCHANGED trace
    /\ UNCHANGED << credEx, presEx, events, notif, lost, registry >>

\* the record create_request returns and saves
CreateRequestRecord(rec) == [rec EXCEPT !.state = STATE_REQUEST_SENT]

\* line 297: sent = CredRequestSent(**cred_ex_record.serialize())
CredRequestSent(x, rec) == ReplyEntry("credential-request-sent", x, rec)

\* lines 289-300: create_request, send the request, reply credential-request-sent
CredOfferAccept_create_request(t) ==
    /\ Running(t, "credential-offer-accept", "engine")
    /\ LET x == task[t].msg.id
           connection_id == AcceptConnectionId(task[t].msg, task[t].rec)
           rec == CreateRequestRecord(task[t].rec)
           call == CallEntry("create_request", x, task[t].rec.state)
       IN
       \E out \in {"ok", "CredentialManagerError"}, sent \in BOOLEAN :
         IF out = "ok"
         THEN /\ credEx' = [credEx EXCEPT ![x] = rec]
              /\ events' = events \cup {Event("cred", x, rec.state)}
              /\ Finish(t, IF sent THEN "ok" ELSE "raised",
                        IF sent THEN "" ELSE "SendError",
                        SendThenReply(call, SendEntry("credential-request", connection_id),
                                      CredRequestSent(x, rec), sent))
         ELSE /\ Finish(t, "raised", out, << call >>)
              /\ UNCHANGED << credEx, events >>
    /\ UNCHANGED << presEx, notif, lost, registry >>

(* --------------------------- SendCredProposal --------------------------- *)
\* a slip: the is_ready check is left out
ProposalConnection_no_ready_check(out, c) ==
    IF out = "StorageNotFoundError" THEN "Connection not found." ELSE out

\* lines 193-215: the connection must exist (else 'Connection not found.') and be
\* ready (else 'Connection invalid.')
ProposalConnection(out, c) ==
    CASE out = "StorageNotFoundError" -> "Connection not found."
      [] out = "ok" /\ ConnStatus(c) # "ready" -> "Connection invalid."
      [] OTHER -> out

\* lines 187-215
SendCredProposal_connection(t) ==
    /\ Running(t, "send-credential-proposal", "body")
    /\ LET c == task[t].msg.conn IN
       \E out \in RetrieveOutcomes(ConnStatus(c) # "missing") :
         LET r == ProposalConnection(out, c) IN
         CASE r = "ok" ->
                /\ task' = [task EXCEPT ![t].pc = "engine"]
                /\ UNCHANGED trace
           [] r = "StorageError" -> Finish(t, "raised", r, << >>)
           [] OTHER -> Finish(t, "reported", r, << ProblemReport(r) >>)
    /\ UNCHANGED << credEx, presEx, events, notif, lost, registry >>

\* the record create_proposal creates and saves
CreateProposalRecord(c) == [state |-> STATE_PROPOSAL_SENT, conn |-> c]

\* a slip: the reply is built from the wrong message class
CredExchange_wrong_class(x, rec) == ReplyEntry("credential-request-sent", x, rec)

\* lines 232-234: cred_exchange = CredExchange(**record.serialize())
CredExchange(x, rec) == ReplyEntry("credential-exchange", x, rec)

\* lines 224-231: the proposal goes out on the message's connection
ProposalSend(msg) == SendEntry("credential-proposal", msg.conn)

\* lines 217-234: create_proposal, send the proposal, reply credential-exchange
SendCredProposal_create_proposal(t) ==
    /\ Running(t, "send-credential-proposal", "engine")
    /\ LET connection_id == task[t].msg.conn
           rec == CreateProposalRecord(connection_id)
       IN
       \/ \E x \in CredIds, sent \in BOOLEAN :
            /\ NewId(credEx, x)
            /\ credEx' = [credEx EXCEPT ![x] = rec]
            /\ events' = events \cup {Event("cred", x, rec.state)}
            /\ task' = [task EXCEPT ![t].pc = "done", ![t].rec = rec,
                          ![t].result = IF sent THEN "ok" ELSE "raised",
                          ![t].error = IF sent THEN "" ELSE "SendError"]
            /\ trace' = [trace EXCEPT ![t] =
                 SendThenReply(CallEntry("create_proposal", x, ""),
                               ProposalSend(task[t].msg), CredExchange(x, rec), sent)]
       \/ /\ Finish(t, "raised", "CredentialManagerError",
                    << CallEntry("create_proposal", 0, "") >>)
          /\ UNCHANGED << credEx, events >>
    /\ UNCHANGED << presEx, notif, lost, registry >>

(* --------------------------- SendPresProposal --------------------------- *)
\* lines 424-427: message.auto_present or settings.get("debug.auto_respond_...")
AutoPresent(flag, debug) == IF flag = "True" THEN "True" ELSE debug

\* a slip: the reporter is given another exception class
SendPresProposalReported_storage == {"StorageError"}

\* line 415: ExceptionReporter(responder, InvalidConnection, context.message)
SendPresProposalReported == {"InvalidConnection"}

\* lines 413-416: the connection must be valid
SendPresProposal_connection(t) ==
    /\ Running(t, "send-presentation-proposal", "body")
    /\ LET err == get_connection(task[t].msg.conn) IN
       IF err = "ok"
       THEN /\ task' = [task EXCEPT ![t].pc = "engine"]
            /\ UNCHANGED trace
       ELSE Except(t, err, SendPresProposalReported, << >>)
    /\ UNCHANGED << credEx, presEx, events, notif, lost, registry >>

\* the record create_exchange_for_proposal creates and saves
CreateExchangeForProposalRecord(c) ==
    [state |-> STATE_PROPOSAL_SENT, conn |-> c, role |-> ROLE_PROVER, verified |-> "None"]

\* lines 418-442: create the exchange, send the proposal, reply presentation-exchange
SendPresProposal_create_exchange(t) ==
    /\ Running(t, "send-presentation-proposal", "engine")
    /\ LET connection_id == task[t].msg.conn
           rec == CreateExchangeForProposalRecord(connection_id)
           auto_present == AutoPresent(task[t].msg.auto_present, task[t].msg.debug)
       IN
       \/ \E p \in PresIds, sent \in BOOLEAN :
            /\ NewId(presEx, p)
            /\ presEx' = [presEx EXCEPT ![p] = rec]
            /\ events' = events \cup {Event("pres", p, rec.state)}
            /\ Finish(t, IF sent THEN "ok" ELSE "raised",
                      IF sent THEN "" ELSE "SendError",
                      SendThenReply(CallEntry("create_exchange_for_proposal", p, auto_present),
                                    SendEntry("presentation-proposal", connection_id),
                                    ReplyEntry("presentation-exchange", p, rec), sent))
       \/ /\ Finish(t, "raised", "StorageError",
                 << CallEntry("create_exchange_for_proposal", 0, auto_present) >>)
          /\ UNCHANGED << presEx, events >>
    /\ UNCHANGED << credEx, notif, lost, registry >>

(* --------------------------- PresRequestApprove ------------------------- *)
\* a slip: the state check is left out
get_pres_ex_record_no_state_check(out, rec) ==
    IF out = "StorageNotFoundError" THEN "InvalidPresentationExchange" ELSE out

\* lines 544-564: the record must exist and be in state request_received
get_pres_ex_record(out, rec) ==
    CASE out = "StorageNotFoundError" -> "InvalidPresentationExchange"
      [] out = "ok" /\ rec.state # STATE_REQUEST_RECEIVED -> "InvalidPresentationExchange"
      [] OTHER -> out

\* a slip: the record's connection is taken as it is, not looked up
ApproveConnection_unchecked(rec) == "ok"

\* lines 581-583: conn_record = await get_connection(session, pres_ex_record.connection_id)
ApproveConnection(rec) == get_connection(rec.conn)

\* lines 570-583: the record, then its connection, each inside its reporter
PresRequestApprove_retrieve(t) ==
    /\ Running(t, "presentation-request-approve", "body")
    /\ LET p == task[t].msg.id IN
       \E out \in RetrieveOutcomes(presEx[p].state # "none") :
         LET err1 == get_pres_ex_record(out, presEx[p])
             err2 == ApproveConnection(presEx[p])
             seen == IF out = "ok" THEN presEx[p] ELSE task[t].rec
             r1 == ExceptionReporter(err1, {"InvalidPresentationExchange"})
             r2 == ExceptionReporter(err2, {"InvalidConnection"})
         IN
         CASE err1 # "ok" ->
                /\ task' = [task EXCEPT ![t].pc = "done", ![t].rec = seen,
                              ![t].result = r1.result, ![t].error = err1]
                /\ trace' = [trace EXCEPT ![t] = @ \o r1.entries]
           [] err1 = "ok" /\ err2 # "ok" ->
                /\ task' = [task EXCEPT ![t].pc = "done", ![t].rec = seen,
                              ![t].result = r2.result, ![t].error = err2]
                /\ trace' = [trace EXCEPT ![t] = @ \o r2.entries]
           [] OTHER ->
                /\ task' = [task EXCEPT ![t].pc = "engine", ![t].rec = seen]
                /\ UNCHANGED trace
    /\ UNCHANGED << credEx, presEx, events, notif, lost, registry >>

\* create_presentation returns, or fails with a model, holder, ledger, storage
\* or wallet error (a selection naming referents the proof request lacks)
CreatePresentationOutcomes ==
    {"ok", "BaseModelError", "IndyHolderError", "LedgerError", "StorageError",
     "WalletNotFoundError"}

\* a slip: the holder's error left out of the reporter's classes
PresRequestApproveReported_no_holder ==
    {"BaseModelError", "LedgerError", "StorageError", "WalletNotFoundError"}

\* lines 588-594: the errors of create_presentation the handler reports
PresRequestApproveReported ==
    {"BaseModelError", "IndyHolderError", "LedgerError", "StorageError",
     "WalletNotFoundError"}

\* the record create_presentation returns and saves
CreatePresentationRecord(rec) == [rec EXCEPT !.state = STATE_PRESENTATION_SENT]

\* lines 585-611: create_presentation, send the presentation, reply presentation-sent
PresRequestApprove_create_presentation(t) ==
    /\ Running(t, "presentation-request-approve", "engine")
    /\ LET p == task[t].msg.id
           rec == CreatePresentationRecord(task[t].rec)
           call == CallEntry("create_presentation", p, task[t].rec.state)
       IN
       \E out \in CreatePresentationOutcomes, sent \in BOOLEAN :
         IF out = "ok"
         THEN /\ presEx' = [presEx EXCEPT ![p] = rec]
              /\ events' = events \cup {Event("pres", p, rec.state)}
              /\ Finish(t, IF sent THEN "ok" ELSE "raised",
                        IF sent THEN "" ELSE "SendError",
                        SendThenReply(call, SendEntry("presentation", task[t].rec.conn),
                                      ReplyEntry("presentation-sent", p, rec), sent))
         ELSE /\ Except(t, out, PresRequestApproveReported, << call >>)
              /\ UNCHANGED << presEx, events >>
    /\ UNCHANGED << credEx, notif, lost, registry >>

(* --------------------------- list handlers ------------------------------ *)
\* a slip: no default, the cursor read as it came
Cursor_as_sent(msg) == [limit |-> msg.limit, offset |-> msg.offset]

\* lines 93-98, 327-332: the paginate field, missing=Paginate(limit=10, offset=0)
Cursor(msg) ==
    IF msg.paginate = "omitted"
    THEN [limit |-> DefaultLimit, offset |-> DefaultOffset]
    ELSE [limit |-> msg.limit, offset |-> msg.offset]

\* the ids of S in ascending order (the store's query order)
RECURSIVE QueryIds(_)
QueryIds(S) ==
    IF S = {} THEN << >>
    ELSE LET m == CHOOSE x \in S : \A y \in S : x <= y
         IN  << m >> \o QueryIds(S \ {m})

\* a slip: the states filter applied though none was given
CredGetListRecords_always_filtered(states) ==
    QueryIds({ x \in DOMAIN credEx : /\ credEx[x].state # "none"
                                     /\ credEx[x].state \in states })

\* lines 136-139: CredExRecord.query, then the states filter when one is given
CredGetListRecords(states) ==
    QueryIds({ x \in DOMAIN credEx : /\ credEx[x].state # "none"
                               /\ (states # {} => credEx[x].state \in states) })

\* lines 134-147
CredGetList_handle(t) ==
    /\ Running(t, "credentials-get-list", "body")
    /\ \E out \in QueryOutcomes :
         IF out = "ok"
         THEN LET m == task[t].msg
                  r == PaginateApply(CredGetListRecords(m.states),
                                     Cursor(m).limit, Cursor(m).offset)
              IN  Finish(t, "ok", "", << ListEntry("credentials-list", r.slice, r.page) >>)
         ELSE Finish(t, "raised", out, << >>)
    /\ UNCHANGED << credEx, presEx, events, notif, lost, registry >>

\* a slip: the role is left out of the post filter
PresGetListRecords_any_role(connection_id, verified) ==
    QueryIds({ p \in DOMAIN presEx :
                 /\ presEx[p].state # "none"
                 /\ (connection_id # 0 => presEx[p].conn = connection_id)
                 /\ (verified # "None" => presEx[p].verified = verified) })

\* lines 355-364: PresExRecord.query with the post filter role, connection_id, verified
PresGetListRecords(connection_id, verified) ==
    QueryIds({ p \in DOMAIN presEx :
                 /\ presEx[p].state # "none"
                 /\ presEx[p].role = ROLE_PROVER
                 /\ (connection_id # 0 => presEx[p].conn = connection_id)
                 /\ (verified # "None" => presEx[p].verified = verified) })

\* lines 352-367
PresGetList_handle(t) ==
    /\ Running(t, "presentations-get-list", "body")
    /\ \E out \in QueryOutcomes :
         IF out = "ok"
         THEN LET m == task[t].msg
                  r == PaginateApply(PresGetListRecords(m.conn, m.verified),
                                     Cursor(m).limit, Cursor(m).offset)
              IN  Finish(t, "ok", "",
                         << ListEntry("presentations-list", r.slice, r.page) >>)
         ELSE Finish(t, "raised", out, << >>)
    /\ UNCHANGED << credEx, presEx, events, notif, lost, registry >>

(* --------------------------- protocol engines --------------------------- *)
\* the issuer's offer arrives: a new record, or a proposal answered
RemoteCredOffer(x) ==
    /\ NewId(credEx, x) \/ credEx[x].state = STATE_PROPOSAL_SENT
    /\ \E c \in ConnIds :
         /\ credEx[x].state # "none" => c = credEx[x].conn
         /\ credEx' = [credEx EXCEPT ![x] = [state |-> STATE_OFFER_RECEIVED, conn |-> c]]
    /\ events' = events \cup {Event("cred", x, STATE_OFFER_RECEIVED)}
    /\ UNCHANGED << presEx, task, trace, notif, lost, registry >>

\* the issuer's credential arrives for a request sent
RemoteCredIssue(x) ==
    /\ credEx[x].state = STATE_REQUEST_SENT
    /\ credEx' = [credEx EXCEPT ![x].state = STATE_CREDENTIAL_RECEIVED]
    /\ events' = events \cup {Event("cred", x, STATE_CREDENTIAL_RECEIVED)}
    /\ UNCHANGED << presEx, task, trace, notif, lost, registry >>

\* the credential is stored and acknowledged
CredAck(x) ==
    /\ credEx[x].state = STATE_CREDENTIAL_RECEIVED
    /\ credEx' = [credEx EXCEPT ![x].state = STATE_ACKED]
    /\ events' = events \cup {Event("cred", x, STATE_ACKED)}
    /\ UNCHANGED << presEx, task, trace, notif, lost, registry >>

\* the verifier's proof request arrives: a new record, or a proposal answered
RemotePresRequest(p) ==
    /\ NewId(presEx, p) \/ presEx[p].state = STATE_PROPOSAL_SENT
    /\ presEx[p].role = ROLE_PROVER
    /\ \E c \in ConnIds :
         /\ presEx[p].state # "none" => c = presEx[p].conn
         /\ presEx' = [presEx EXCEPT ![p] =
                         [ state |-> STATE_REQUEST_RECEIVED, conn |-> c,
                           role |-> ROLE_PROVER, verified |-> "None" ]]
    /\ events' = events \cup {Event("pres", p, STATE_REQUEST_RECEIVED)}
    /\ UNCHANGED << credEx, task, trace, notif, lost, registry >>

\* the verifier's verdict on a presentation sent
RemotePresVerified(p) ==
    /\ presEx[p].state = STATE_PRESENTATION_SENT
    /\ \E v \in {"true", "false"} :
         presEx' = [presEx EXCEPT ![p].state = STATE_VERIFIED, ![p].verified = v]
    /\ events' = events \cup {Event("pres", p, STATE_VERIFIED)}
    /\ UNCHANGED << credEx, task, trace, notif, lost, registry >>

\* the agent, as verifier, opens an exchange of its own
VerifierPresRequest(p) ==
    /\ NewId(presEx, p)
    /\ \E c \in ConnIds :
         presEx' = [presEx EXCEPT ![p] =
                      [ state |-> STATE_REQUEST_SENT, conn |-> c,
                        role |-> ROLE_VERIFIER, verified |-> "None" ]]
    /\ events' = events \cup {Event("pres", p, STATE_REQUEST_SENT)}
    /\ UNCHANGED << credEx, task, trace, notif, lost, registry >>

(* --------------------------- event bridge ------------------------------- *)
NoNotice ==
    [ what |-> "", id |-> 0, state |-> "", matching |-> 0, total |-> 0,
      count |-> 0, offset |-> 0 ]

\* util.send_to_admins: a copy to every admin session; a failed delivery to one
\* session (those of failed) leaves the others served
SendToAdmins(message, failed) ==
    /\ notif' = [a \in Admins |->
                   IF a \in failed THEN notif[a] ELSE Append(notif[a], message)]
    /\ lost' = lost \cup { [admin |-> a, what |-> message.what, id |-> message.id] :
                             a \in failed }

\* a slip: the offer is not forwarded
ForwardedCredStates_no_offer == {STATE_CREDENTIAL_RECEIVED}

\* lines 672-675: the states forwarded to the admins
ForwardedCredStates == {STATE_OFFER_RECEIVED, STATE_CREDENTIAL_RECEIVED}

\* a slip: the two notifications are swapped
CredNoticeType_swapped(state) ==
    IF state = STATE_OFFER_RECEIVED THEN "credential-received"
    ELSE "credential-offer-received"

\* lines 680-686: the notification for a forwarded state
CredNoticeType(state) ==
    IF state = STATE_OFFER_RECEIVED THEN "credential-offer-received"
    ELSE "credential-received"

\* lines 667-693
issue_credential_event_handler(e) ==
    /\ e \in events /\ e.topic = "cred"
    /\ events' = events \ {e}
    /\ IF e.state \notin ForwardedCredStates
       THEN UNCHANGED << notif, lost >>
       ELSE \E failed \in SUBSET Admins :
              SendToAdmins([NoNotice EXCEPT !.what = CredNoticeType(e.state),
                                            !.id = e.id, !.state = e.state],
                           failed)
    /\ UNCHANGED << credEx, presEx, task, trace, registry >>

\* line 477: the offset the holder store is asked from
LookupOffset == 0

\* the holder store's answers: how many credentials match the proof request
MatchTotals == {0, 1, DEFAULT_COUNT + 1}

\* a slip: the holder store is asked for every matching credential
retrieve_matching_credentials_unbounded(message, total) ==
    [message EXCEPT !.matching = total, !.total = total,
                    !.count = DEFAULT_COUNT, !.offset = DEFAULT_COUNT]

\* lines 472-481: up to DEFAULT_COUNT matching credentials from offset 0, and the page
retrieve_matching_credentials(message, total) ==
    [message EXCEPT !.matching = Min(Max(total - LookupOffset, 0), DEFAULT_COUNT),
                    !.total = total,
                    !.count = DEFAULT_COUNT, !.offset = DEFAULT_COUNT]

\* lines 696-707
present_proof_event_handler(e) ==
    /\ e \in events /\ e.topic = "pres" /\ e.pc = "pending"
    /\ IF e.state # STATE_REQUEST_RECEIVED
       THEN /\ events' = events \ {e}
            /\ UNCHANGED << notif, lost >>
       ELSE \/ /\ events' = events \ {e}
               /\ \E total \in MatchTotals, failed \in SUBSET Admins :
                    SendToAdmins(
                        retrieve_matching_credentials(
                            [NoNotice EXCEPT !.what = "presentation-request-received",
                                             !.id = e.id, !.state = e.state],
                            total),
                        failed)
            \/ \* the holder store raises: the handler task ends on the exception
               /\ events' = (events \ {e}) \cup {[e EXCEPT !.pc = "raised"]}
               /\ UNCHANGED << notif, lost >>
    /\ UNCHANGED << credEx, presEx, task, trace, registry >>

(* --------------------------- specification ------------------------------ *)
\* the records a list command finds stored: credential exchanges of every state,
\* and presentation exchanges of either role, any connection and any verdict
ListedCredEx ==
    [state : {CredLifecycle[i] : i \in 1..Len(CredLifecycle)}, conn : {1}]

ListedPresEx ==
    [ state : {STATE_REQUEST_RECEIVED}, conn : ConnIds, role : {ROLE_PROVER},
      verified : {"None"} ]
    \cup [ state : {STATE_VERIFIED}, conn : ConnIds, role : {ROLE_PROVER},
           verified : {"true", "false"} ]
    \cup [ state : {STATE_REQUEST_SENT}, conn : ConnIds, role : {ROLE_VERIFIER},
           verified : {"None"} ]

\* one record more than a default page holds
OverPage == DefaultLimit + 1

\* the store as a run of the engines may have left it: up to MaxListed records
\* of either kind, in any mix, or OverPage records alike
InitList ==
    /\ \/ /\ \/ \E n \in 0..MaxListed : credEx \in [1..n -> ListedCredEx]
             \/ \E r \in ListedCredEx : credEx = [x \in 1..OverPage |-> r]
          /\ presEx = << >>
       \/ /\ credEx = << >>
          /\ \/ \E n \in 1..MaxListed : presEx \in [1..n -> ListedPresEx]
             \/ \E r \in ListedPresEx : presEx = [p \in 1..OverPage |-> r]
    /\ task = [t \in Tasks |-> IdleTask]
    /\ trace = [t \in Tasks |-> << >>]
    /\ events = {}
    /\ notif = [a \in Admins |-> << >>]
    /\ lost = {}
    /\ registry = MESSAGE_TYPES

\* the commands that drive a credential exchange, and a presentation exchange
IssueMessages == SendCredProposalMsgs \cup CredOfferAcceptMsgs

\* approve commands, and proposals on the admin channel with the flags left out
ProofMessages ==
    PresRequestApproveMsgs
    \cup { m \in SendPresProposalMsgs :
             m.admin /\ m.auto_present = "None" /\ m.debug = "None" }

ListMessages == CredGetListMsgs \cup PresGetListMsgs

IssueEngine ==
    \/ \E x \in CredIds : RemoteCredOffer(x)
    \/ \E x \in CredIds : RemoteCredIssue(x)
    \/ \E x \in CredIds : CredAck(x)

ProofEngine ==
    \/ \E p \in PresIds : RemotePresRequest(p)
    \/ \E p \in PresIds : RemotePresVerified(p)
    \/ \E p \in PresIds : VerifierPresRequest(p)

IssueHandlers ==
    \/ \E t \in Tasks : SendCredProposal_connection(t)
    \/ \E t \in Tasks : SendCredProposal_create_proposal(t)
    \/ \E t \in Tasks : CredOfferAccept_retrieve(t)
    \/ \E t \in Tasks : CredOfferAccept_create_request(t)

ProofHandlers ==
    \/ \E t \in Tasks : SendPresProposal_connection(t)
    \/ \E t \in Tasks : SendPresProposal_create_exchange(t)
    \/ \E t \in Tasks : PresRequestApprove_retrieve(t)
    \/ \E t \in Tasks : PresRequestApprove_create_presentation(t)

ListHandlers ==
    \/ \E t \in Tasks : CredGetList_handle(t)
    \/ \E t \in Tasks : PresGetList_handle(t)

EventHandlers ==
    \/ \E e \in events : issue_credential_event_handler(e)
    \/ \E e \in events : present_proof_event_handler(e)

\* the whole plugin
Next ==
    \/ \E t \in Tasks :
         Receive(t, IssueMessages \cup ProofMessages \cup SendPresProposalMsgs
                      \cup ListMessages)
    \/ IssueHandlers
    \/ ProofHandlers
    \/ ListHandlers
    \/ IssueEngine
    \/ ProofEngine
    \/ EventHandlers

Spec == Init /\ [][Next]_vars

\* The plugin's parts, each checked on its own: the two protocols share no record
\* and no handler, the list handlers write nothing, and the event handlers read
\* only the events. Messages from other than admin channels are left to the
\* part on access control.

\* credential issuance: its commands and its engine
NextIssue ==
    \/ \E t \in Tasks : Receive(t, {m \in IssueMessages : m.admin})
    \/ IssueHandlers
    \/ IssueEngine

SpecIssue == Init /\ [][NextIssue]_vars

\* presentation exchange up to its approval: its commands and its engine
NextProof ==
    \/ \E t \in Tasks : Receive(t, {m \in ProofMessages : m.admin})
    \/ ProofHandlers
    \/ ProofEngine

SpecProof == Init /\ [][NextProof]_vars

\* the list commands, over any store; they write nothing, so one at a time
NextList ==
    \/ Receive(1, {m \in ListMessages : m.admin})
    \/ ListHandlers

SpecList == InitList /\ [][NextList]_vars

\* access control: one message of any of the six kinds, from an admin channel or
\* not, over a store where the record it names exists or does not
InitAccess ==
    /\ credEx \in [CredIds -> {NoCredEx, [state |-> STATE_OFFER_RECEIVED, conn |-> 1]}]
    /\ presEx \in [PresIds -> {NoPresEx,
                                [state |-> STATE_REQUEST_RECEIVED, conn |-> 1,
                                 role |-> ROLE_PROVER, verified |-> "None"]}]
    /\ task = [t \in Tasks |-> IdleTask]
    /\ trace = [t \in Tasks |-> << >>]
    /\ events = {}
    /\ notif = [a \in Admins |-> << >>]
    /\ lost = {}
    /\ registry = MESSAGE_TYPES

AccessMessages ==
    IssueMessages \cup SendPresProposalMsgs \cup PresRequestApproveMsgs
    \cup ListMessages

NextAccess ==
    \/ Receive(1, AccessMessages)
    \/ IssueHandlers
    \/ ProofHandlers
    \/ ListHandlers

SpecAccess == InitAccess /\ [][NextAccess]_vars

\* the event bridge of credential issuance: the engine and the admin's accept
\* command move the records, and the event bus runs a handler task for every
\* event published
NextBridge ==
    \/ Receive(1, {m \in CredOfferAcceptMsgs : m.admin})
    \/ \E t \in Tasks : CredOfferAccept_retrieve(t)
    \/ \E t \in Tasks : CredOfferAccept_create_request(t)
    \/ IssueEngine
    \/ \E e \in events : issue_credential_event_handler(e)

CredEvents ==
    { Event("cred", x, CredLifecycle[i]) : x \in CredIds, i \in 1..Len(CredLifecycle) }

SpecBridge ==
    /\ Init
    /\ [][NextBridge]_vars
    /\ \A e \in CredEvents : WF_vars(issue_credential_event_handler(e))

\* the offer leg of the credential event bridge: offers arrive and are
\* forwarded while the admin may accept them; the issuer does not answer yet
NextOffer ==
    \/ Receive(1, {m \in CredOfferAcceptMsgs : m.admin})
    \/ \E t \in Tasks : CredOfferAccept_retrieve(t)
    \/ \E t \in Tasks : CredOfferAccept_create_request(t)
    \/ \E x \in CredIds : RemoteCredOffer(x)
    \/ \E e \in events : issue_credential_event_handler(e)

SpecOffer ==
    /\ Init
    /\ [][NextOffer]_vars
    /\ \A e \in CredEvents : WF_vars(issue_credential_event_handler(e))

\* the event bridge of presentation exchange, with the admin's approve command
NextProofBridge ==
    \/ Receive(1, {m \in PresRequestApproveMsgs : m.admin})
    \/ \E t \in Tasks : PresRequestApprove_retrieve(t)
    \/ \E t \in Tasks : PresRequestApprove_create_presentation(t)
    \/ ProofEngine
    \/ \E e \in events : present_proof_event_handler(e)

PresEvents ==
    { Event("pres", p, s) :
        p \in PresIds,
        s \in { STATE_PROPOSAL_SENT, STATE_REQUEST_RECEIVED, STATE_PRESENTATION_SENT,
                STATE_VERIFIED, STATE_REQUEST_SENT } }

SpecProofBridge ==
    /\ Init
    /\ [][NextProofBridge]_vars
    /\ \A e \in PresEvents : WF_vars(present_proof_event_handler(e))

(* ======================================================================= *)
(* Claims                                                                  *)
(* ======================================================================= *)
Done(t, kind) == task[t].pc = "done" /\ task[t].msg.kind = kind /\ task[t].msg.admin

\* the handler of t ended on an exception the dispatcher raised: no error the
\* design anticipates
Unanticipated(t) == task[t].error = "SendError"

\* C1: every command of the admin channel handled to its end, whatever anticipated
\* outcome its collaborators had, got exactly one reply: the success reply or a
\* Problem Report.
C1_ExactlyOneReply ==
    \A t \in Tasks :
        (task[t].pc = "done" /\ task[t].msg.admin /\ ~Unanticipated(t))
            => Len(Replies(t)) = 1

\* C2: presentation-request-approve for a record that is not stored, or is stored
\* in another state than request_received, ends with the one reply
\* Problem Report(InvalidPresentationExchange): create_presentation is not
\* called and nothing is sent to the remote party.
C2_ApproveNeedsRequestReceived ==
    \A t \in Tasks :
        ( /\ Done(t, "presentation-request-approve")
          /\ task[t].error # "StorageError"
          /\ task[t].rec.state # STATE_REQUEST_RECEIVED )
            => /\ trace[t] = << ProblemReport("InvalidPresentationExchange") >>
               /\ task[t].result = "reported"

C2_Witness ==
    \E t, u \in Tasks :
        /\ Done(t, "presentation-request-approve")
        /\ task[t].error = "InvalidPresentationExchange"
        /\ task[t].rec.state \notin {"none", STATE_REQUEST_RECEIVED}
        /\ Len(Replies(t)) = 1
        /\ Done(u, "presentation-request-approve")
        /\ task[u].error = "InvalidPresentationExchange"
        /\ task[u].rec.state = "none"
        /\ Len(Replies(u)) = 1

\* C3: of two presentation-request-approve commands for the same presentation
\* exchange id, at most one sends a presentation.
C3_AtMostOneApproveSucceeds ==
    \A t, u \in Tasks :
        ( /\ t # u
          /\ Done(t, "presentation-request-approve")
          /\ Done(u, "presentation-request-approve")
          /\ task[t].msg.id = task[u].msg.id
          /\ Sends(t) # << >> )
            => Sends(u) = << >>

\* C4: credential-offer-accept for a record in another state than offer_received
\* does not call create_request, sends no credential request and does not reply
\* credential-request-sent.
C4_AcceptNeedsOfferReceived ==
    \A t \in Tasks :
        ( /\ task[t].msg.kind = "credential-offer-accept"
          /\ task[t].rec.state # STATE_OFFER_RECEIVED )
            => /\ Calls(t) = << >>
               /\ Sends(t) = << >>
               /\ \A i \in DOMAIN trace[t] : trace[t][i].what # "credential-request-sent"

\* C5: no step moves a credential exchange record to an earlier state of the
\* lifecycle proposal_sent, offer_received, request_sent, credential_received,
\* acked.
C5_LifecycleMonotonic ==
    [][ \A x \in CredIds : CredRank(credEx'[x].state) >= CredRank(credEx[x].state) ]_vars

\* C6: credential-offer-accept for a stored record X whose connection is ready
\* calls create_request for X and, the engine and the dispatcher succeeding,
\* sends the credential request on X's connection and then replies
\* credential-request-sent with the record in state request_sent.
C6_AcceptSendsRequest ==
    \A t \in Tasks :
        ( /\ Done(t, "credential-offer-accept")
          /\ task[t].rec.state # "none"
          /\ ConnStatus(task[t].rec.conn) = "ready" )
            => LET x == task[t].msg.id
                   conn == credEx[x].conn
               IN  /\ Len(Calls(t)) = 1
                   /\ Calls(t)[1].what = "create_request"
                   /\ Calls(t)[1].id = x
                   /\ task[t].error = "" =>
                        /\ Len(trace[t]) = 3
                        /\ trace[t][2] = SendEntry("credential-request", conn)
                        /\ trace[t][3] =
                             ReplyEntry("credential-request-sent", x,
                                        [state |-> STATE_REQUEST_SENT, conn |-> conn])

C6_Witness ==
    \E t \in Tasks :
        /\ Done(t, "credential-offer-accept")
        /\ task[t].result = "ok"
        /\ task[t].rec.state = STATE_OFFER_RECEIVED

\* C7: send-credential-proposal on a ready connection C calls create_proposal
\* and, the engine and the dispatcher succeeding, a record for C is stored, the
\* proposal is sent on C and the reply is credential-exchange in state
\* proposal_sent.
C7_ProposalOnReadyConnection ==
    \A t \in Tasks :
        ( /\ Done(t, "send-credential-proposal")
          /\ ConnStatus(task[t].msg.conn) = "ready"
          /\ task[t].error # "StorageError" )
            => LET c == task[t].msg.conn IN
               /\ Len(Calls(t)) = 1
               /\ Calls(t)[1].what = "create_proposal"
               /\ task[t].error = "" =>
                    \E x \in CredIds :
                        /\ credEx[x].state # "none"
                        /\ credEx[x].conn = c
                        /\ trace[t] =
                             << CallEntry("create_proposal", x, ""),
                                SendEntry("credential-proposal", c),
                                ReplyEntry("credential-exchange", x,
                                           [state |-> STATE_PROPOSAL_SENT, conn |-> c]) >>

C7_Witness ==
    \E t \in Tasks :
        /\ Done(t, "send-credential-proposal")
        /\ task[t].result = "ok"
        /\ Len(Replies(t)) = 1

\* C8: send-credential-proposal whose connection is missing or not ready ends
\* with the one reply Problem Report(who_retries = none): create_proposal is not
\* called, so no record is created, and nothing is sent to the remote party.
C8_ProposalNeedsReadyConnection ==
    \A t \in Tasks :
        ( /\ Done(t, "send-credential-proposal")
          /\ ConnStatus(task[t].msg.conn) # "ready"
          /\ task[t].error # "StorageError" )
            => /\ Len(trace[t]) = 1
               /\ trace[t][1].act = "reply"
               /\ trace[t][1].what = "problem-report"
               /\ trace[t][1].who_retries = "none"
               /\ task[t].rec = NoCredEx

C8_Witness ==
    \E t, u \in Tasks :
        /\ Done(t, "send-credential-proposal")
        /\ ConnStatus(task[t].msg.conn) = "missing"
        /\ task[t].result = "reported"
        /\ Done(u, "send-credential-proposal")
        /\ ConnStatus(task[u].msg.conn) = "not_ready"
        /\ task[u].result = "reported"

\* the copy of a notification admin a gets, or loses, in a step
Notified(a, what, id, state) ==
    \/ /\ Len(notif'[a]) = Len(notif[a]) + 1
       /\ notif'[a][Len(notif'[a])].what = what
       /\ notif'[a][Len(notif'[a])].id = id
       /\ notif'[a][Len(notif'[a])].state = state
    \/ /\ notif'[a] = notif[a]
       /\ [admin |-> a, what |-> what, id |-> id] \in lost'

\* C9: the handler of a credential exchange event sends the admins
\* credential-offer-received for state offer_received, credential-received for
\* state credential_received, and nothing for any other state.
C9_CredEventsForwarded ==
    [][ \A e \in events :
          (e \notin events' /\ e.topic = "cred") =>
            CASE e.state = "offer_received" ->
                   \A a \in Admins : Notified(a, "credential-offer-received", e.id, e.state)
              [] e.state = "credential_received" ->
                   \A a \in Admins : Notified(a, "credential-received", e.id, e.state)
              [] OTHER -> notif' = notif /\ lost' = lost ]_vars

C9_Witness ==
    /\ events = {}
    /\ \E x \in CredIds :
         /\ credEx[x].state = STATE_ACKED
         /\ \E i, j \in DOMAIN notif[1] :
              /\ notif[1][i].what = "credential-offer-received" /\ notif[1][i].id = x
              /\ notif[1][j].what = "credential-received" /\ notif[1][j].id = x

Delivered(a, what, x) == \E i \in DOMAIN notif[a] : notif[a][i].what = what /\ notif[a][i].id = x

Lost(a, what, x) == [admin |-> a, what |-> what, id |-> x] \in lost

\* C10: once the engine has published a record's move to offer_received, every
\* admin session eventually holds the credential-offer-received notification for
\* the record, or its own delivery failed: a failure for one session keeps the
\* notification from no other.
C10_OfferReachesEveryAdmin ==
    \A x \in CredIds :
        (Event("cred", x, STATE_OFFER_RECEIVED) \in events)
            ~> \A a \in Admins :
                 \/ Delivered(a, "credential-offer-received", x)
                 \/ Lost(a, "credential-offer-received", x)

C10_Witness ==
    /\ \A t \in Tasks : task[t].pc = "idle"
    /\ \E x \in CredIds, a, b \in Admins :
         /\ Lost(a, "credential-offer-received", x)
         /\ ~Delivered(a, "credential-offer-received", x)
         /\ Delivered(b, "credential-offer-received", x)

\* the copy of the presentation-request-received notification for record id that
\* admin a gets, or loses, in a step: the one delivered carries the page the
\* lookup set and what the lookup returned, DEFAULT_COUNT credentials at most
PresNotified(a, id) ==
    \/ /\ Len(notif'[a]) = Len(notif[a]) + 1
       /\ LET m == notif'[a][Len(notif'[a])] IN
            /\ m.what = "presentation-request-received"
            /\ m.id = id
            /\ m.state = STATE_REQUEST_RECEIVED
            /\ m.count = DEFAULT_COUNT
            /\ m.matching = Min(m.total, DEFAULT_COUNT)
            /\ m.matching <= DEFAULT_COUNT
    \/ /\ notif'[a] = notif[a]
       /\ [admin |-> a, what |-> "presentation-request-received", id |-> id] \in lost'

\* C11: the handler of a presentation exchange event sends the admins
\* presentation-request-received exactly for state request_received (its lookup
\* of matching credentials having returned), the notification carries the
\* lookup's result, at most 10 credentials; an event in any other state, or one
\* whose lookup raised, sends nothing.
C11_PresEventsForwarded ==
    [][ \A e \in events :
          (e \notin events' /\ e.topic = "pres") =>
            IF e.state = STATE_REQUEST_RECEIVED /\ [e EXCEPT !.pc = "raised"] \notin events'
            THEN \A a \in Admins : PresNotified(a, e.id)
            ELSE notif' = notif /\ lost' = lost ]_vars

C11_Witness ==
    /\ \A e \in events : e.pc # "pending"
    /\ \E p \in PresIds :
         /\ presEx[p].state = STATE_PRESENTATION_SENT
         /\ \E i \in DOMAIN notif[1] :
              /\ notif[1][i].what = "presentation-request-received"
              /\ notif[1][i].id = p
              /\ notif[1][i].total > DEFAULT_COUNT
              /\ notif[1][i].matching = DEFAULT_COUNT

\* C12: in every admin session, the credential-offer-received notification of a
\* record comes before the credential-received notification of that record.
C12_NotificationsInOrder ==
    \A a \in Admins, x \in CredIds :
        \A i, j \in DOMAIN notif[a] :
            ( /\ notif[a][i].id = x /\ notif[a][i].what = "credential-offer-received"
              /\ notif[a][j].id = x /\ notif[a][j].what = "credential-received" )
                => i < j

\* C13: presentation-request-approve for a record read in state request_received
\* whose connection is missing or not ready ends with the one reply
\* Problem Report(InvalidConnection): create_presentation is not called and
\* nothing is sent to the remote party.
C13_ApproveNeedsConnection ==
    \A t \in Tasks :
        ( /\ Done(t, "presentation-request-approve")
          /\ task[t].rec.state = STATE_REQUEST_RECEIVED
          /\ ConnStatus(task[t].rec.conn) # "ready" )
            => /\ trace[t] = << ProblemReport("InvalidConnection") >>
               /\ task[t].result = "reported"

C13_Witness ==
    \E t \in Tasks :
        /\ Done(t, "presentation-request-approve")
        /\ task[t].rec.state = STATE_REQUEST_RECEIVED
        /\ ConnStatus(task[t].rec.conn) = "not_ready"
        /\ Replies(t) = << ProblemReport("InvalidConnection") >>

\* a message from a channel that is not an admin channel
NonAdmin(t) == task[t].msg.kind # "none" /\ ~task[t].msg.admin

\* C14: a message of any of the six kinds from a channel that is not an admin
\* channel ends its handler at once, denied: no reply, nothing sent to the remote
\* party, no engine call, no record changed and no event published, and so the
\* same, empty, observation whether or not the record it names is stored.
C14_NonAdminDropped ==
    /\ [](\A t \in Tasks :
            NonAdmin(t) => /\ task[t].pc = "done"
                           /\ task[t].result = "denied"
                           /\ trace[t] = << >>)
    /\ [][ \A t \in Tasks :
             (task[t].pc = "idle" /\ task'[t].pc # "idle" /\ ~task'[t].msg.admin)
                => /\ credEx' = credEx /\ presEx' = presEx
                   /\ events' = events /\ notif' = notif /\ lost' = lost ]_vars

C14_Witness ==
    \E t \in Tasks :
        /\ NonAdmin(t)
        /\ task[t].msg.kind = "presentation-request-approve"
        /\ presEx[task[t].msg.id].state = STATE_REQUEST_RECEIVED
        /\ task[t].pc = "done"

\* C15: a send-credential-proposal or credential-offer-accept whose engine call
\* (create_proposal, create_request) raised CredentialManagerError ends with the
\* one reply Problem Report, and nothing sent to the remote party.
C15_EngineErrorReported ==
    \A t \in Tasks :
        ( /\ task[t].pc = "done" /\ task[t].msg.admin
          /\ task[t].msg.kind \in {"send-credential-proposal", "credential-offer-accept"}
          /\ task[t].error = "CredentialManagerError" )
            => /\ Replies(t) = << ProblemReport("CredentialManagerError") >>
               /\ Sends(t) = << >>

\* C16: a credentials-get-list or presentations-get-list whose store query
\* raised StorageError ends with the one reply Problem Report, not a list.
C16_QueryErrorReported ==
    \A t \in Tasks :
        ( /\ task[t].pc = "done" /\ task[t].msg.admin
          /\ task[t].msg.kind \in {"credentials-get-list", "presentations-get-list"}
          /\ task[t].error = "StorageError" )
            => Replies(t) = << ProblemReport("StorageError") >>

\* the message classes of the admin-holder family
MessageClasses ==
    { "CredGetList", "CredList", "SendCredProposal", "CredExchange", "CredOfferRecv",
      "CredOfferAccept", "CredRequestSent", "CredReceived", "PresGetList", "PresList",
      "SendPresProposal", "PresExchange", "PresRequestReceived", "PresRequestApprove",
      "PresSent" }

\* C17: the registry that setup fills maps the type name of every one of the fifteen
\* message classes of the family, presentation-request-received and
\* presentation-sent among them, to that class, and holds nothing else.
C17_AllTypesRegistered ==
    /\ \A cls \in MessageClasses :
         /\ message_type(cls) \in DOMAIN registry
         /\ registry[message_type(cls)] = cls
    /\ Cardinality(DOMAIN registry) = Cardinality(MessageClasses)

\* the list reply of a list command handled to its end
ListReply(t) == Replies(t)[1]

\* the ids of a sequence of results
Ids(results) == { results[i] : i \in DOMAIN results }

\* C18: the results of credentials-get-list are records whose state is in the
\* states asked for, in the order of the store's query, none left out between
\* two of them; with no states given (absent or empty) no record is left out for
\* its state, and a page that covers the store returns every matching record.
C18_StatesFilter ==
    \A t \in Tasks :
        (Done(t, "credentials-get-list") /\ task[t].result = "ok") =>
            LET m == task[t].msg
                res == ListReply(t).results
                match == { x \in DOMAIN credEx :
                             m.states = {} \/ credEx[x].state \in m.states }
            IN  /\ Ids(res) \subseteq match
                /\ \A i, j \in DOMAIN res : i < j => res[i] < res[j]
                /\ \A x \in match :
                     (res # << >> /\ res[1] < x /\ x < res[Len(res)]) => x \in Ids(res)
                /\ (Cursor(m).offset = 0 /\ Cursor(m).limit >= Cardinality(DOMAIN credEx))
                      => Ids(res) = match

C18_Witness ==
    \E t \in Tasks :
        /\ Done(t, "credentials-get-list") /\ task[t].result = "ok"
        /\ task[t].msg.states = {STATE_REQUEST_SENT, STATE_ACKED}
        /\ DOMAIN credEx = 1..2
        /\ credEx[1].state = STATE_OFFER_RECEIVED
        /\ credEx[2].state = STATE_ACKED
        /\ ListReply(t).results = << 2 >>

\* a list command handled to its end, its store query having returned
Listed(t) ==
    /\ task[t].pc = "done" /\ task[t].msg.admin
    /\ task[t].msg.kind \in {"credentials-get-list", "presentations-get-list"}
    /\ task[t].error # "StorageError"

\* the records of the store that pass the filters of the list command of t
Passing(t) ==
    LET m == task[t].msg IN
    IF m.kind = "credentials-get-list"
    THEN { x \in DOMAIN credEx : m.states = {} \/ credEx[x].state \in m.states }
    ELSE { p \in DOMAIN presEx :
             /\ presEx[p].role = ROLE_PROVER
             /\ (m.conn # 0 => presEx[p].conn = m.conn)
             /\ (m.verified # "None" => presEx[p].verified = m.verified) }

\* C19: a list command with limit L > 0 and offset O over N records passing its
\* filters replies with max(0, min(L, N - O)) results and page.offset = O; an
\* offset beyond N gives a list reply with no results, not an error.
C19_PageLength ==
    \A t \in Tasks :
        Listed(t) =>
            LET L == Cursor(task[t].msg).limit
                O == Cursor(task[t].msg).offset
                N == Cardinality(Passing(t))
            IN  /\ task[t].result = "ok"
                /\ Len(Replies(t)) = 1
                /\ ListReply(t).what \in {"credentials-list", "presentations-list"}
                /\ Len(ListReply(t).results) = Max(0, Min(L, N - O))
                /\ ListReply(t).offset = O

C19_Witness ==
    \E t \in Tasks :
        /\ Listed(t) /\ task[t].msg.kind = "presentations-get-list"
        /\ Cardinality(Passing(t)) = MaxListed
        /\ task[t].msg.paginate = "given"
        /\ task[t].msg.offset > MaxListed
        /\ ListReply(t).results = << >>
        /\ ListReply(t).what = "presentations-list"

\* C20: a list command that leaves pagination out is answered with its list
\* message holding the first 10 records that pass its filters, all of them when
\* they are fewer, and page.offset 0; when none passes, a list message with no
\* results.
C20_DefaultPage ==
    \A t \in Tasks :
        (Listed(t) /\ task[t].msg.paginate = "omitted") =>
            LET all == QueryIds(Passing(t))
                n == Min(DefaultLimit, Len(all))
            IN  /\ task[t].result = "ok"
                /\ Len(Replies(t)) = 1
                /\ ListReply(t).what =
                     (IF task[t].msg.kind = "credentials-get-list"
                      THEN "credentials-list" ELSE "presentations-list")
                /\ ListReply(t).results = SubSeq(all, 1, n)
                /\ ListReply(t).offset = DefaultOffset

C20_Witness ==
    \E t \in Tasks :
        /\ Listed(t) /\ task[t].msg.paginate = "omitted"
        /\ task[t].msg.kind = "credentials-get-list"
        /\ Cardinality(Passing(t)) = OverPage
        /\ Len(ListReply(t).results) = DefaultLimit

\* C21: send-presentation-proposal on a connection that is missing or not ready
\* ends with the one reply Problem Report(InvalidConnection): no presentation
\* exchange record is created, create_exchange_for_proposal is not called,
\* no proposal is sent to the remote party and no presentation-exchange reply.
C21_ProposalNeedsValidConnection ==
    /\ [](\A t \in Tasks :
            ( /\ Done(t, "send-presentation-proposal")
              /\ ConnStatus(task[t].msg.conn) # "ready" )
                => /\ trace[t] = << ProblemReport("InvalidConnection") >>
                   /\ task[t].result = "reported")
    /\ [][ \A t \in Tasks :
             ( /\ Running(t, "send-presentation-proposal", "body")
               /\ ConnStatus(task[t].msg.conn) # "ready"
               /\ task'[t] # task[t] )
                => /\ task'[t].pc = "done"
                   /\ presEx' = presEx /\ events' = events ]_vars

C21_Witness ==
    \E t \in Tasks :
        /\ Done(t, "send-presentation-proposal")
        /\ ConnStatus(task[t].msg.conn) = "missing"
        /\ Replies(t) = << ProblemReport("InvalidConnection") >>
        /\ Calls(t) = << >> /\ Sends(t) = << >>

\* C22: presentation-request-approve whose create_presentation call failed with a
\* model, holder, ledger, storage or wallet error (as for a selection of
\* referents the stored proof request lacks) ends with the one reply
\* Problem Report, and no presentation is sent to the remote party.
C22_ConstructionErrorReported ==
    \A t \in Tasks :
        ( /\ Done(t, "presentation-request-approve")
          /\ Calls(t) # << >>
          /\ task[t].error \in {"BaseModelError", "IndyHolderError", "LedgerError",
                                 "StorageError", "WalletNotFoundError"} )
            => /\ Replies(t) = << ProblemReport(task[t].error) >>
               /\ Sends(t) = << >>
               /\ task[t].result = "reported"

C22_Witness ==
    \E t \in Tasks :
        /\ Done(t, "presentation-request-approve")
        /\ Calls(t) = << CallEntry("create_presentation", task[t].msg.id,
                                   STATE_REQUEST_RECEIVED) >>
        /\ task[t].error = "IndyHolderError"
        /\ Replies(t) = << ProblemReport("IndyHolderError") >>
        /\ presEx[task[t].msg.id].state = STATE_REQUEST_RECEIVED

\* C23: every presentation-request-received notification delivered carries a page
\* whose offset is the offset of the lookup and whose count is the number of
\* matching credentials it holds, so that page.offset plus that number is at
\* most the number of matching credentials in the holder store.
C23_NotificationPage ==
    \A a \in Admins :
        \A i \in DOMAIN notif[a] :
            notif[a][i].what = "presentation-request-received"
                => /\ notif[a][i].offset = LookupOffset
                   /\ notif[a][i].count = notif[a][i].matching
                   /\ notif[a][i].offset + notif[a][i].matching <= notif[a][i].total

\* C24: credential-offer-accept naming a record that is not stored, or a record
\* whose connection is missing or not ready, ends with the one reply
\* Problem Report: create_request is not called and nothing is sent to the
\* remote party.
C24_AcceptNeedsRecordAndConnection ==
    \A t \in Tasks :
        ( /\ Done(t, "credential-offer-accept")
          /\ task[t].error \in {"StorageNotFoundError", "InvalidConnection"} )
            => /\ Len(Replies(t)) = 1
               /\ Replies(t)[1].what = "problem-report"
               /\ Calls(t) = << >>
               /\ Sends(t) = << >>

\* C25: every record presentations-get-list returns has role prover, the
\* connection id of the command when it gives one and the verified value of the
\* command when it gives one; a page that covers the store returns every such
\* record, so a filter left out excludes none; and the handler changes no record.
C25_PresListFilters ==
    /\ [](\A t \in Tasks :
            (Done(t, "presentations-get-list") /\ task[t].result = "ok") =>
                LET m == task[t].msg
                    res == ListReply(t).results
                    match == { p \in DOMAIN presEx :
                                 /\ presEx[p].role = ROLE_PROVER
                                 /\ m.conn = 0 \/ presEx[p].conn = m.conn
                                 /\ m.verified = "None" \/ presEx[p].verified = m.verified }
                IN  /\ \A i \in DOMAIN res :
                         /\ res[i] \in DOMAIN presEx
                         /\ presEx[res[i]].role = ROLE_PROVER
                         /\ m.conn # 0 => presEx[res[i]].conn = m.conn
                         /\ m.verified # "None" => presEx[res[i]].verified = m.verified
                    /\ (Cursor(m).offset = 0 /\ Cursor(m).limit >= Cardinality(DOMAIN presEx))
                          => Ids(res) = match)
    /\ [][ (\E t \in Tasks : /\ Running(t, "presentations-get-list", "body")
                              /\ task'[t].pc = "done")
              => presEx' = presEx /\ credEx' = credEx ]_vars

C25_Witness ==
    \E t \in Tasks :
        /\ Done(t, "presentations-get-list") /\ task[t].result = "ok"
        /\ task[t].msg.conn = 1 /\ task[t].msg.verified = "true"
        /\ DOMAIN presEx = 1..2
        /\ presEx[1].role = ROLE_VERIFIER /\ presEx[1].conn = 1
        /\ presEx[2].role = ROLE_PROVER /\ presEx[2].conn = 1
        /\ presEx[2].verified = "true"
        /\ ListReply(t).results = << 2 >>

\* the truth value the engine reads from an auto_present argument
Truthy(v) == v = "True"

\* C26: create_exchange_for_proposal is called with the auto_present flag of the
\* send-presentation-proposal message when the message gives one, true or false,
\* and with the debug-mode default only when the message leaves it out.
C26_ExplicitAutoPresentWins ==
    \A t \in Tasks :
        \A i \in DOMAIN trace[t] :
            ( /\ task[t].msg.kind = "send-presentation-proposal"
              /\ trace[t][i].act = "call"
              /\ trace[t][i].what = "create_exchange_for_proposal" )
                => Truthy(trace[t][i].arg) =
                     Truthy(IF task[t].msg.auto_present # "None"
                            THEN task[t].msg.auto_present
                            ELSE task[t].msg.debug)

\* the replies that tell the admin a mutating command succeeded
SuccessReplies ==
    { "credential-exchange", "credential-request-sent", "presentation-exchange",
      "presentation-sent" }

\* C27: in the handlers of send-credential-proposal, credential-offer-accept,
\* send-presentation-proposal and presentation-request-approve, a success reply
\* comes after the engine call and after the message for the remote party was
\* handed to the dispatcher; a handler the dispatcher failed has sent no success
\* reply.
C27_ReplyAfterEngineAndSend ==
    \A t \in Tasks :
        /\ \A i \in DOMAIN trace[t] :
             (trace[t][i].act = "reply" /\ trace[t][i].what \in SuccessReplies)
                => \E j, k \in DOMAIN trace[t] :
                     /\ j < k /\ k < i
                     /\ trace[t][j].act = "call"
                     /\ trace[t][k].act = "send"
        /\ task[t].error = "SendError" =>
             \A i \in DOMAIN trace[t] : trace[t][i].what \notin SuccessReplies

C27_Witness ==
    \E t \in Tasks :
        /\ Done(t, "presentation-request-approve")
        /\ task[t].result = "ok"
        /\ Len(trace[t]) = 3
        /\ trace[t][1].what = "create_presentation"
        /\ trace[t][2] = SendEntry("presentation", 1)
        /\ trace[t][3].what = "presentation-sent"

====
